---- MODULE Spec2Model ----
(***************************************************************************)
(* The multi-source ingestion pipeline of popularity-vision: the three     *)
(* orchestrator entry points (scripts/run_cron_ingestion.py,               *)
(* scripts/run_ingestion.py, scripts/run_ingestion_test.py), the           *)
(* exception boundary of the three source adapters, the in-run             *)
(* deduplication and the INSERT .. ON CONFLICT DO UPDATE write into the    *)
(* workflows table (api/models.py).                                        *)
(* A second specification, SpecAdapter, follows one call of one source     *)
(* adapter (scripts/ingest_discourse.py, ingest_youtube.py,                *)
(* ingest_google.py) request by request.                                   *)
(***************************************************************************)
EXTENDS Integers, Sequences, FiniteSets, TLC

(* ------------------------------ bounds -------------------------------- *)

\* number of orchestrator runs explored, one after the other
MaxRuns == 2
\* largest number of records the three adapters emit together in one run
MaxItems == 2

(* ------------------------- the stored schema -------------------------- *)

\* the natural key of a record or of a row
Key(w) == <<w.workflow_name, w.platform, w.country>>

\* a set_ that leaves source_url out
SetColumnsMetricsOnly == {"popularity_metrics"}

\* run_cron_ingestion.py 80-83: the columns ON CONFLICT DO UPDATE assigns
SetColumns == {"popularity_metrics", "source_url"}

Adapters == <<"discourse", "youtube", "google">>

AdapterSet == {Adapters[i] : i \in 1..Len(Adapters)}

\* the platform tag each adapter writes into its records
Platform(a) ==
  CASE a = "discourse" -> "Discourse"
    [] a = "youtube"   -> "YouTube"
    [] a = "google"    -> "Google Trends"

\* the country values each adapter writes; the region list passed to the
\* trend adapter is kept to one region here (its default is US and IN)
Countries(a) == IF a = "google" THEN {"US"} ELSE {"Global"}

\* titles the sources may report (two items of a source may share a title)
Names == {"a"}

\* contents a source may report for an item: a metrics object and a url (the
\* url of a trend record is a function of its keyword and country)
Payloads(a) ==
  IF a = "google" THEN {[m |-> 1, u |-> "u1"], [m |-> 2, u |-> "u1"]}
  ELSE {[m |-> 1, u |-> "u1"], [m |-> 2, u |-> "u2"]}

\* the records an adapter can emit
RecordsOf(a) ==
  { [workflow_name |-> n, platform |-> Platform(a), country |-> c,
     popularity_metrics |-> p.m, source_url |-> p.u] :
       n \in Names, c \in Countries(a), p \in Payloads(a) }

RECURSIVE SeqsUpTo(_, _)
SeqsUpTo(S, n) ==
  IF n = 0 THEN {<<>>}
  ELSE LET shorter == SeqsUpTo(S, n - 1)
       IN  shorter \cup {Append(s, x) : s \in {t \in shorter : Len(t) = n - 1}, x \in S}

(* --------------------------- exceptions ------------------------------- *)

\* the base class of each exception class that occurs (Exception is the root)
ExcParent ==
  [ FileNotFoundError   |-> "OSError",
    PermissionError     |-> "OSError",
    OSError             |-> "Exception",
    UnicodeDecodeError  |-> "ValueError",
    ValueError          |-> "Exception",
    KeyError            |-> "Exception",
    AttributeError      |-> "Exception",
    TypeError           |-> "Exception",
    ImportError         |-> "Exception",
    RequestException    |-> "OSError",
    Timeout             |-> "RequestException",
    ConnectionError     |-> "RequestException",
    HTTPError           |-> "RequestException",
    HttpError           |-> "Exception",
    ServerNotFoundError |-> "Exception",
    ResponseError       |-> "Exception",
    OperationalError    |-> "Exception",
    CardinalityViolation |-> "Exception",
    ArithmeticError     |-> "Exception",
    ZeroDivisionError   |-> "ArithmeticError",
    NameError           |-> "Exception",
    UnboundLocalError   |-> "NameError",
    Exception           |-> "Exception" ]

RECURSIVE IsSubclass(_, _)
IsSubclass(e, cls) ==
  \/ e = cls
  \/ e # "Exception" /\ IsSubclass(ExcParent[e], cls)

\* the external calls of each adapter, in program order
Sites(a) ==
  CASE a = "discourse" -> {"keywords", "search", "topic"}
    [] a = "youtube"   -> {"keywords", "build", "search", "videos"}
    [] a = "google"    -> {"keywords", "attempt", "related"}

\* what an external call can raise
Raises(a, site) ==
  CASE site = "keywords" -> {"FileNotFoundError", "PermissionError", "UnicodeDecodeError"}
    [] a = "discourse" /\ site = "search" ->
         {"Timeout", "ConnectionError", "HTTPError", "AttributeError"}
    [] a = "discourse" /\ site = "topic" ->
         {"Timeout", "ConnectionError", "HTTPError", "KeyError", "ValueError"}
    [] a = "youtube" /\ site = "build" -> {"HttpError", "ServerNotFoundError"}
    [] a = "youtube" /\ site = "search" -> {"HttpError", "ServerNotFoundError", "KeyError"}
    [] a = "youtube" /\ site = "videos" ->
         {"HttpError", "ServerNotFoundError", "KeyError", "ValueError"}
    [] a = "google" /\ site = "attempt" -> {"ResponseError", "ConnectionError", "KeyError"}
    [] a = "google" /\ site = "related" -> {"ResponseError", "KeyError"}

\* the classes named by the except clauses that enclose an external call
Handlers(a, site) ==
  CASE site = "keywords" -> {"FileNotFoundError"}
    [] a = "discourse" /\ site = "search" -> {"RequestException"}
    [] a = "discourse" /\ site = "topic" ->
         {"Timeout", "RequestException", "KeyError", "Exception"}
    [] a = "youtube" -> {"HttpError"}
    [] a = "google" /\ site = "attempt" -> {"ResponseError", "Exception"}
    [] a = "google" /\ site = "related" -> {"Exception"}

NoFault == [site |-> "none", exc |-> "none"]

Faults(a) ==
  {NoFault} \cup UNION { {[site |-> s, exc |-> e] : e \in Raises(a, s)} : s \in Sites(a) }

Caught(a, fault) == \E cls \in Handlers(a, fault.site) : IsSubclass(fault.exc, cls)

\* the list an adapter returns when the failure of an external call is caught:
\* the video adapter fetches no statistics before every search is over
Degraded(a, fault, recs) ==
  IF a = "youtube" /\ fault.site \in {"build", "search"} THEN <<>> ELSE recs

\* the result of one adapter call: a returned list, or an exception that escapes
AdapterOutcome(a, fault, recs) ==
  IF fault = NoFault THEN [tag |-> "return", exc |-> "none", at |-> a, recs |-> recs]
  ELSE IF Caught(a, fault)
  THEN [tag |-> "return", exc |-> "none", at |-> a, recs |-> Degraded(a, fault, recs)]
  ELSE [tag |-> "raise", exc |-> fault.exc, at |-> a, recs |-> <<>>]

\* the video adapter loads its keywords, then returns [] at once when no API
\* key is configured
YoutubeOutcome(keyConfigured, fault, recs) ==
  IF ~keyConfigured /\ fault.site # "keywords"
  THEN [tag |-> "return", exc |-> "none", at |-> "youtube", recs |-> <<>>]
  ELSE IF ~keyConfigured
  THEN AdapterOutcome("youtube", fault, <<>>)
  ELSE AdapterOutcome("youtube", fault, recs)

(* ------------------- the signatures of the adapters ------------------- *)

Params(a) ==
  CASE a = "discourse" -> {"keywords", "max_keywords", "max_pages_per_keyword"}
    [] a = "youtube"   -> {"keywords"}
    [] a = "google"    -> {"keywords", "countries"}

\* the keyword arguments each script passes to each adapter
CallArgs(s, a) ==
  IF s # "test" THEN {}
  ELSE CASE a = "discourse" -> {"max_keywords", "max_pages_per_keyword"}
         [] a = "youtube"   -> {"keywords", "max_pages_per_keyword"}
         [] a = "google"    -> {"max_keywords"}

\* Python raises TypeError for a keyword argument the function does not take
CallAccepted(s, a) == CallArgs(s, a) \subseteq Params(a)

(* ------------------- deduplication and the bulk write ------------------ *)

KeysOf(ws) == {Key(ws[i]) : i \in 1..Len(ws)}

HasDuplicateKeys(ws) == \E i, j \in 1..Len(ws) : i # j /\ Key(ws[i]) = Key(ws[j])

\* a loop that lets a later record of a key replace the earlier one
RECURSIVE DeduplicateKeepLast(_)
DeduplicateKeepLast(ws) ==
  IF ws = <<>> THEN <<>>
  ELSE LET w == ws[1]
           rest == DeduplicateKeepLast(SubSeq(ws, 2, Len(ws)))
       IN  IF Key(w) \in KeysOf(rest) THEN rest ELSE <<w>> \o rest

\* the seen-set loop of upsert_workflows: a record is appended unless its key
\* was seen before
RECURSIVE Deduplicate(_)
Deduplicate(ws) ==
  IF ws = <<>> THEN <<>>
  ELSE LET front == Deduplicate(SubSeq(ws, 1, Len(ws) - 1))
           w == ws[Len(ws)]
       IN  IF Key(w) \in KeysOf(front) THEN front ELSE Append(front, w)

\* duplicates_count after the seen-set loop: the records whose key was seen
\* before (run_ingestion.py has no such loop)
DuplicatesCount(s, ws) ==
  IF s = "plain" THEN 0
  ELSE Cardinality({i \in 1..Len(ws) : \E j \in 1..(i - 1) : Key(ws[j]) = Key(ws[i])})

\* the batch each script hands to insert(Workflow).values(..)
BatchOf(s, ws) == IF s = "plain" THEN ws ELSE Deduplicate(ws)

\* a new row: id from the serial, last_updated from server_default now()
NewRow(rows, w, now) ==
  [id |-> Cardinality(rows) + 1,
   workflow_name |-> w.workflow_name, platform |-> w.platform, country |-> w.country,
   popularity_metrics |-> w.popularity_metrics, source_url |-> w.source_url,
   last_updated |-> now]

\* DO UPDATE SET: the assigned columns take the excluded row's values
UpdatedRow(row, w) ==
  [c \in DOMAIN row |-> IF c \in SetColumns THEN w[c] ELSE row[c]]

\* a refresh that drops the rows written before this statement
UpsertOneTruncating(rows, w, now) ==
  LET kept == {r \in rows : r.last_updated = now /\ Key(r) # Key(w)}
  IN  kept \cup {NewRow(kept, w, now)}

\* a plain INSERT into a table without the unique constraint
UpsertOneInsertOnly(rows, w, now) == rows \cup {NewRow(rows, w, now)}

\* INSERT .. ON CONFLICT (workflow_name, platform, country) DO UPDATE of one record
UpsertOne(rows, w, now) ==
  IF \E r \in rows : Key(r) = Key(w)
  THEN {IF Key(r) = Key(w) THEN UpdatedRow(r, w) ELSE r : r \in rows}
  ELSE rows \cup {NewRow(rows, w, now)}

\* the statement applied to the records of the batch in order
RECURSIVE UpsertAll(_, _, _)
UpsertAll(rows, batch, now) ==
  IF batch = <<>> THEN rows
  ELSE UpsertOne(UpsertAll(rows, SubSeq(batch, 1, Len(batch) - 1), now),
                 batch[Len(batch)], now)

\* db_session.commit(): the pending rows become the stored rows
CommitTxn(committed, pending) == pending

\* an except clause that commits what the statement had applied
RollbackKeepsPending(committed, pending) == pending

\* db_session.rollback(), or the session dropped with the transaction open
Rollback(committed, pending) == committed

\* a main that does not look at --dry-run
WritesBatchIgnoresDry(s, dry, ws) == ws # <<>>

\* a writer without the empty-list check
WritesBatchAlways(s, dry, ws) == IF s = "cron" THEN ~dry ELSE TRUE

\* the truth value of "not args.dry_run and workflows" and of "not workflow_data"
WritesBatch(s, dry, ws) ==
  IF s = "cron" THEN ~dry /\ ws # <<>> ELSE ws # <<>>

(* ------------------------------ state --------------------------------- *)

VARIABLES
  store,               \* the committed rows of the workflows table
  pending,             \* the rows as the open transaction of the session sees them
  clock,               \* the database server's now()
  runs,                \* orchestrator runs started so far
  pc,                  \* position of the current run
  entry,               \* the script that was started: "cron", "plain" or "test"
  mode,                \* --mode of the cron script
  dry_run,             \* --dry-run of the cron script
  all_workflows,       \* the aggregate of the adapters' returned lists
  batch,               \* the list handed to insert(Workflow).values(..)
  workflows_processed, \* the count the cron script reports
  exit_code,           \* the process exit status (read when pc is done or failed)
  exc,                 \* the exception that ended the run, if any
  failedAt,            \* the phase that exception was raised in
  returned,            \* the adapters that have returned a list in this run
  executes,            \* bulk statements issued in this run
  store0,              \* the committed rows when the run started
  YOUTUBE_API_KEY,     \* the key the process environment holds ("": none)
  source_counts,       \* the length of the list each adapter returned in this run
  duplicates_count     \* duplicates_count of upsert_workflows

\* one call of one adapter, observed step by step
VARIABLES
  a_which,             \* the adapter that is called ("none": no adapter call is observed)
  a_pc,                \* position in the adapter
  a_kwread,            \* how the read of the keyword file ended
  a_keywords,          \* keywords
  a_ki,                \* index of the keyword of the current iteration
  a_workflows,         \* workflows: the list the adapter returns
  a_exc,               \* the exception that left the adapter, if any
  a_last,              \* the item handled last, and what became of it
  a_search,            \* the search request made last, and how it ended
  a_pace,              \* the sleep since the last network call, and the one before it
  g_ci,                \* trend adapter: index of the country of the current iteration
  g_attempt,           \* trend adapter: attempt of the retry loop
  g_resp,              \* trend adapter: the answers to the attempts of the current pair
  g_waits,             \* trend adapter: the backoff waits of the current pair
  d_max_pages_per_keyword, \* forum adapter: the parameter (0: None)
  d_page,              \* forum adapter: page
  d_topics,            \* forum adapter: the topics of the page not yet handled
  d_seen_urls,         \* forum adapter: seen_urls
  d_topic_id,          \* forum adapter: topic_id (0: not yet bound)
  d_requests,          \* forum adapter: how the detail requests for each topic id ended
  y_pages_processed,   \* video adapter: pages_processed
  y_all_video_ids,     \* video adapter: all_video_ids
  y_i,                 \* video adapter: i, the start of the batch
  y_items,             \* video adapter: the items of the batch not yet handled
  t_pc,                \* calculate_trend_direction: position ("none": no call is observed)
  t_df,                \* calculate_trend_direction: df, the interest frame of the keyword
  t_days,              \* calculate_trend_direction: days
  t_result             \* calculate_trend_direction: the dictionary returned

orchVars == <<store, pending, clock, runs, pc, entry, mode, dry_run, all_workflows, batch,
              workflows_processed, exit_code, exc, failedAt, returned, executes, store0,
              YOUTUBE_API_KEY, source_counts, duplicates_count>>

avars == <<a_which, a_pc, a_kwread, a_keywords, a_ki, a_workflows, a_exc, a_last, a_search,
           a_pace,
           g_ci, g_attempt, g_resp, g_waits,
           d_max_pages_per_keyword, d_page, d_topics, d_seen_urls, d_topic_id, d_requests,
           y_pages_processed, y_all_video_ids, y_i, y_items>>

trendVars == <<g_ci, g_attempt, g_resp, g_waits>>

forumVars == <<d_max_pages_per_keyword, d_page, d_topics, d_seen_urls, d_topic_id,
               d_requests>>

videoVars == <<y_pages_processed, y_all_video_ids, y_i, y_items>>

tvars == <<t_pc, t_df, t_days, t_result>>

vars == <<orchVars, avars, tvars>>

NoSearch == [ki |-> 0, page |-> 0, exc |-> "none", status |-> 0, more |-> FALSE]

NoItem == [tag |-> "none", exc |-> "none", item |-> <<>>]

\* the ids of the topics the forum has
TopicIds == {1, 2}

\* no detail request has been made
NoRequests == [t \in TopicIds |-> <<>>]

\* no network call has been made: slept is the time.sleep made since the last
\* network call ("none": no sleep), gap the one made between the last two calls
NoPace == [slept |-> "first", gap |-> "first"]

\* a request is sent to the source
NetworkCall(pace) == [slept |-> "none", gap |-> pace.slept]

\* time.sleep
Sleep(pace, kind) == [pace EXCEPT !.slept = kind]

\* no adapter call is observed
AdapterIdle ==
  /\ a_which = "none"
  /\ a_pc = "idle"
  /\ a_kwread = "none"
  /\ a_keywords = <<>>
  /\ a_ki = 1
  /\ a_workflows = <<>>
  /\ a_exc = "none"
  /\ a_last = NoItem
  /\ a_search = NoSearch
  /\ a_pace = NoPace
  /\ g_ci = 1
  /\ g_attempt = 0
  /\ g_resp = <<>>
  /\ g_waits = <<>>
  /\ d_max_pages_per_keyword = 0
  /\ d_page = 0
  /\ d_topics = <<>>
  /\ d_seen_urls = {}
  /\ d_topic_id = 0
  /\ d_requests = NoRequests
  /\ y_pages_processed = 0
  /\ y_all_video_ids = <<>>
  /\ y_i = 0
  /\ y_items = <<>>

NoFrame == [has_column |-> FALSE, values |-> <<>>]

NoDirection == [raised |-> FALSE, trend_direction |-> "none", change_percentage |-> 0, slope |-> 0]

\* no call of calculate_trend_direction is observed
DirectionIdle ==
  /\ t_pc = "none"
  /\ t_df = NoFrame
  /\ t_days = 0
  /\ t_result = NoDirection

\* the script whose adapter calls and whose upsert_workflows the run executes:
\* the cron script in test mode calls main() of run_ingestion_test
Script(e, m) == IF e = "cron" /\ m = "test" THEN "test" ELSE e

script == Script(entry, mode)

Invocations ==
  {[entry |-> "cron", mode |-> m, dry_run |-> d] : m \in {"full", "test", "deep"}, d \in BOOLEAN}
    \cup {[entry |-> e, mode |-> "none", dry_run |-> FALSE] : e \in {"plain", "test"}}

Terminal == {"done", "failed"}

\* the values of the key in the environment: none, or a key
EnvKeys == {"", "key"}

\* ingest_youtube.py 26
KeyConfigured(k) == k # "" /\ k # "YOUR_YOUTUBE_API_KEY_HERE"

NoCounts == [a \in AdapterSet |-> 0]

OrchIdle ==
  /\ store = {}
  /\ pending = {}
  /\ clock = 0
  /\ runs = 0
  /\ pc = "idle"
  /\ entry = "cron"
  /\ mode = "full"
  /\ dry_run = FALSE
  /\ all_workflows = <<>>
  /\ batch = <<>>
  /\ workflows_processed = 0
  /\ exit_code = 0
  /\ exc = "none"
  /\ failedAt = "none"
  /\ returned = {}
  /\ executes = 0
  /\ store0 = {}
  /\ YOUTUBE_API_KEY = ""
  /\ source_counts = NoCounts
  /\ duplicates_count = 0

Init == OrchIdle /\ AdapterIdle /\ DirectionIdle

\* an exception reaches the top of the script: main's except clause sets
\* exit_code = 1; an uncaught exception ends the plain scripts with status 1
\* an except clause that leaves exit_code at 0
ExitCodeSwallowed(e) == 0

\* exit_code = 0 at the start of main, exit_code = 1 in its except clause
ExitCodeAfter(e) == IF e = "none" THEN 0 ELSE 1

Fail(phase, e) ==
  /\ pc' = "failed"
  /\ exit_code' = ExitCodeAfter(e)
  /\ exc' = e
  /\ failedAt' = phase

\* one invocation of a script; the scheduler guarantees runs do not overlap
StartRun ==
  /\ pc \in Terminal \cup {"idle"}
  /\ runs < MaxRuns
  /\ \E inv \in Invocations :
       /\ entry' = inv.entry
       /\ mode' = inv.mode
       /\ dry_run' = inv.dry_run
  /\ runs' = runs + 1
  /\ clock' = clock + 1
  /\ pc' = "import"
  /\ all_workflows' = <<>>
  /\ batch' = <<>>
  /\ workflows_processed' = 0
  /\ exit_code' = 0
  /\ exc' = "none"
  /\ failedAt' = "none"
  /\ returned' = {}
  /\ executes' = 0
  /\ store0' = store
  /\ YOUTUBE_API_KEY' \in EnvKeys
  /\ source_counts' = NoCounts
  /\ duplicates_count' = 0
  /\ pending' = store
  /\ UNCHANGED store
  /\ UNCHANGED <<avars, tvars>>

\* the module-level imports succeed
ImportOk ==
  /\ pc = "import"
  /\ pc' = "init"
  /\ UNCHANGED <<store, pending, clock, runs, entry, mode, dry_run, all_workflows, batch,
                 workflows_processed, exit_code, exc, failedAt, returned, executes, store0,
                 YOUTUBE_API_KEY, source_counts, duplicates_count>>
  /\ UNCHANGED <<avars, tvars>>

\* "from config import YOUTUBE_API_KEY" fails when config does not bind the name
ImportFail ==
  /\ pc = "import"
  /\ Fail("import", "ImportError")
  /\ UNCHANGED <<store, pending, clock, runs, entry, mode, dry_run, all_workflows, batch,
                 workflows_processed, returned, executes, store0,
                 YOUTUBE_API_KEY, source_counts, duplicates_count>>
  /\ UNCHANGED <<avars, tvars>>

\* Base.metadata.create_all(bind=engine); db = SessionLocal()
InitDb ==
  /\ pc = "init"
  /\ pc' = "discourse"
  /\ UNCHANGED <<store, pending, clock, runs, entry, mode, dry_run, all_workflows, batch,
                 workflows_processed, exit_code, exc, failedAt, returned, executes, store0,
                 YOUTUBE_API_KEY, source_counts, duplicates_count>>
  /\ UNCHANGED <<avars, tvars>>

InitDbFail ==
  /\ pc = "init"
  /\ Fail("init", "OperationalError")
  /\ UNCHANGED <<store, pending, clock, runs, entry, mode, dry_run, all_workflows, batch,
                 workflows_processed, returned, executes, store0,
                 YOUTUBE_API_KEY, source_counts, duplicates_count>>
  /\ UNCHANGED <<avars, tvars>>

NextPhase(a) ==
  CASE a = "discourse" -> "youtube"
    [] a = "youtube"   -> "google"
    [] a = "google"    -> "process"

\* what the body of adapter a can end in when it may emit up to n records
BodyOutcomes(a, n) ==
  {IF a = "youtube" THEN YoutubeOutcome(k, f, recs) ELSE AdapterOutcome(a, f, recs) :
     k \in {KeyConfigured(YOUTUBE_API_KEY)}, f \in Faults(a),
     recs \in SeqsUpTo(RecordsOf(a), n)}

\* what the call of adapter a by the running script ends in: the test script
\* loads the keywords it passes itself, and a call the signature rejects
\* never enters the adapter
CallOutcomes(a) ==
  IF ~CallAccepted(script, a)
  THEN {[tag |-> "raise", exc |-> "TypeError", at |-> "script", recs |-> <<>>]}
         \cup {[tag |-> "raise", exc |-> e, at |-> "script", recs |-> <<>>] :
                 e \in {x \in Raises(a, "keywords") :
                          CallArgs(script, a) \cap {"keywords"} # {}
                          /\ ~Caught(a, [site |-> "keywords", exc |-> x])}}
  ELSE BodyOutcomes(a, MaxItems - Len(all_workflows))

\* an aggregate that takes the newest list first
ExtendInFront(ws, recs) == recs \o ws

\* list.extend
Extend(ws, recs) == ws \o recs

\* all_workflows.extend(fetch_..()): the adapter returns a list
CollectReturn(a) ==
  /\ pc = a
  /\ \E o \in CallOutcomes(a) :
       /\ o.tag = "return"
       /\ all_workflows' = Extend(all_workflows, o.recs)
       /\ source_counts' = [source_counts EXCEPT ![a] = Len(o.recs)]
  /\ returned' = returned \cup {a}
  /\ pc' = NextPhase(a)
  /\ UNCHANGED <<store, pending, clock, runs, entry, mode, dry_run, batch,
                 workflows_processed, exit_code, exc, failedAt, executes, store0,
                 YOUTUBE_API_KEY, duplicates_count>>
  /\ UNCHANGED <<avars, tvars>>

\* an exception leaves the adapter call; run_full_ingestion re-raises it
CollectRaise(a) ==
  /\ pc = a
  /\ \E o \in CallOutcomes(a) :
       /\ o.tag = "raise"
       /\ Fail(o.at, o.exc)
  /\ UNCHANGED <<store, pending, clock, runs, entry, mode, dry_run, all_workflows, batch,
                 workflows_processed, returned, executes, store0,
                 YOUTUBE_API_KEY, source_counts, duplicates_count>>
  /\ UNCHANGED <<avars, tvars>>

\* the count main reports when no statement is issued
SkippedCount(s, dry, ws) == IF s = "cron" /\ dry THEN Len(ws) ELSE 0

\* no write: dry run, or an empty list
SkipWrite ==
  /\ pc = "process"
  /\ ~WritesBatch(script, dry_run, all_workflows)
  /\ workflows_processed' = SkippedCount(script, dry_run, all_workflows)
  /\ pc' = "done"
  /\ UNCHANGED <<store, pending, clock, runs, entry, mode, dry_run, all_workflows, batch,
                 exit_code, exc, failedAt, returned, executes, store0,
                 YOUTUBE_API_KEY, source_counts, duplicates_count>>
  /\ UNCHANGED <<avars, tvars>>

\* upsert_workflows up to db_session.execute(update_stmt), which succeeds
Execute ==
  /\ pc = "process"
  /\ WritesBatch(script, dry_run, all_workflows)
  /\ batch' = BatchOf(script, all_workflows)
  /\ ~HasDuplicateKeys(batch')
  /\ duplicates_count' = DuplicatesCount(script, all_workflows)
  /\ pending' = UpsertAll(store, batch', clock)
  /\ executes' = executes + 1
  /\ pc' = "commit"
  /\ UNCHANGED <<store, clock, runs, entry, mode, dry_run, all_workflows,
                 workflows_processed, exit_code, exc, failedAt, returned, store0,
                 YOUTUBE_API_KEY, source_counts>>
  /\ UNCHANGED <<avars, tvars>>

\* db_session.execute raises after k records: the connection is lost, or the
\* statement would update one row twice; the transaction is rolled back
ExecuteFail ==
  /\ pc = "process"
  /\ WritesBatch(script, dry_run, all_workflows)
  /\ batch' = BatchOf(script, all_workflows)
  /\ duplicates_count' = DuplicatesCount(script, all_workflows)
  /\ executes' = executes + 1
  /\ \E k \in 0..(Len(batch') - 1) :
       /\ store' = Rollback(store, UpsertAll(store, SubSeq(batch', 1, k), clock))
       /\ pending' = store'
  /\ Fail("write", IF HasDuplicateKeys(batch') THEN "CardinalityViolation"
                                               ELSE "OperationalError")
  /\ UNCHANGED <<clock, runs, entry, mode, dry_run, all_workflows,
                 workflows_processed, returned, store0,
                 YOUTUBE_API_KEY, source_counts>>
  /\ UNCHANGED <<avars, tvars>>

\* a return of the length of the list as it was collected
WrittenCountCollected(s, b) == IF s = "cron" THEN Len(all_workflows) ELSE 0

\* the count upsert_workflows returns to the cron script's main
WrittenCount(s, b) == IF s = "cron" THEN Len(b) ELSE 0

\* db_session.commit() succeeds
Commit ==
  /\ pc = "commit"
  /\ store' = CommitTxn(store, pending)
  /\ pending' = store'
  /\ workflows_processed' = WrittenCount(script, batch)
  /\ pc' = "done"
  /\ UNCHANGED <<clock, runs, entry, mode, dry_run, all_workflows, batch,
                 exit_code, exc, failedAt, returned, executes, store0,
                 YOUTUBE_API_KEY, source_counts, duplicates_count>>
  /\ UNCHANGED <<avars, tvars>>

\* db_session.commit() raises
CommitFail ==
  /\ pc = "commit"
  /\ store' = Rollback(store, pending)
  /\ pending' = store'
  /\ Fail("write", "OperationalError")
  /\ UNCHANGED <<clock, runs, entry, mode, dry_run, all_workflows, batch,
                 workflows_processed, returned, executes, store0,
                 YOUTUBE_API_KEY, source_counts, duplicates_count>>
  /\ UNCHANGED <<avars, tvars>>

Next ==
  \/ StartRun
  \/ ImportOk
  \/ ImportFail
  \/ InitDb
  \/ InitDbFail
  \/ \E a \in AdapterSet : CollectReturn(a)
  \/ \E a \in AdapterSet : CollectRaise(a)
  \/ SkipWrite
  \/ Execute
  \/ ExecuteFail
  \/ Commit
  \/ CommitFail

Spec == Init /\ [][Next]_vars


(* ---------------------- one adapter call, step by step ------------------ *)

\* lines of the keyword file
MaxKeywords == 2

\* ingest_google.py 73: retries = 3
Retries == 3
\* ingest_google.py 158: wait_time = (attempt + 1) * 5
BackoffUnit == 5

(* the keyword file: a line is a sequence of words and whitespace *)

Whitespace == {" ", "\n"}

FileLines == { <<"k", "\n">>, <<" ", "q", " ", "\n">>, <<" ", "\n">> }

KeywordFiles == SeqsUpTo(FileLines, MaxKeywords)

RECURSIVE LStrip(_)
LStrip(line) ==
  IF line # <<>> /\ Head(line) \in Whitespace THEN LStrip(Tail(line)) ELSE line

RECURSIVE RStrip(_)
RStrip(line) ==
  IF line # <<>> /\ line[Len(line)] \in Whitespace
  THEN RStrip(SubSeq(line, 1, Len(line) - 1)) ELSE line

\* str.strip()
Strip(line) == RStrip(LStrip(line))

\* [line.strip() for line in f if line.strip()]
RECURSIVE NonBlankStripped(_)
NonBlankStripped(lines) ==
  IF lines = <<>> THEN <<>>
  ELSE IF Strip(Head(lines)) # <<>>
  THEN <<Strip(Head(lines))>> \o NonBlankStripped(Tail(lines))
  ELSE NonBlankStripped(Tail(lines))

\* the list each load_keywords_from_file returns when the file is not found
BuiltInKeywords(a) ==
  CASE a = "discourse" -> << <<"workflow">>, <<"automation">>, <<"n8n">> >>
    [] a = "youtube"   -> << <<"n8n", " ", "workflow">>,
                             <<"n8n", " ", "automation", " ", "tutorial">>,
                             <<"n8n", " ", "slack">> >>
    [] a = "google"    -> << <<"n8n", " ", "slack">>, <<"n8n", " ", "google", " ", "sheets">>,
                             <<"n8n", " ", "openai">>, <<"n8n", " ", "http", " ", "request">>,
                             <<"n8n", " ", "webhook">> >>

\* the built-in list, cut to the length of the longest keyword file explored
DefaultKeywords(a) ==
  SubSeq(BuiltInKeywords(a), 1,
         IF Len(BuiltInKeywords(a)) < MaxKeywords THEN Len(BuiltInKeywords(a)) ELSE MaxKeywords)

\* load_keywords_from_file: the keywords, or the exception that leaves it
LoadKeywords(a, file, fault) ==
  IF fault = "none" THEN [exc |-> "none", keywords |-> NonBlankStripped(file)]
  ELSE IF \E cls \in Handlers(a, "keywords") : IsSubclass(fault, cls)
  THEN [exc |-> "none", keywords |-> DefaultKeywords(a)]
  ELSE [exc |-> fault, keywords |-> <<>>]

(* ratios *)

Pow10(places) == IF places = 2 THEN 100 ELSE IF places = 4 THEN 10000 ELSE 1000000

\* round(n / d, places), as a multiple of 10^-places (ties to even)
Round(n, d, places) ==
  LET q == (n * Pow10(places)) \div d
      r == (n * Pow10(places)) % d
  IN  IF 2 * r > d \/ (2 * r = d /\ q % 2 = 1) THEN q + 1 ELSE q

\* n / d raises ZeroDivisionError when d = 0
Divide(n, d, places) ==
  IF d = 0 THEN [raised |-> TRUE, value |-> 0]
  ELSE [raised |-> FALSE, value |-> Round(n, d, places)]

\* a ratio without its guard
UnguardedRatio(n, d, places) == Divide(n, d, places)

\* round(n / d, places) if d > 0 else 0
GuardedRatio(n, d, places) ==
  IF d > 0 THEN Divide(n, d, places) ELSE [raised |-> FALSE, value |-> 0]

(* the trend adapter *)

\* ingest_google.py 60: countries=['US', 'IN']
TrendCountries == <<"US", "IN">>

TrendAnswer(kind, status, e, annual, current) ==
  [kind |-> kind, status |-> status, exc |-> e, annual |-> annual, current |-> current]

\* what one attempt (lines 76-93) can end with: the two interest means, no
\* data, or an exception (a ResponseError carries the HTTP status)
TrendAnswers ==
  { TrendAnswer("data", 200, "none", 4, 2), TrendAnswer("data", 200, "none", 0, 2),
    TrendAnswer("empty", 200, "none", 0, 0) }
  \cup { TrendAnswer("raise", st, "ResponseError", 0, 0) : st \in {429, 500} }
  \cup { TrendAnswer("raise", 0, e, 0, 0) : e \in Raises("google", "attempt") \ {"ResponseError"} }

\* lines 97-141
TrendMetrics(ans) ==
  LET momentum == GuardedRatio(ans.current, ans.annual, 2)
  IN  [raised |-> momentum.raised,
       metrics |-> [relative_search_interest |-> ans.current,
                    annual_average_interest |-> ans.annual,
                    momentum_score |-> momentum.value]]

\* lines 143-149
TrendRecord(keyword, country, ans) ==
  [workflow_name |-> <<"Search Trend: ">> \o keyword, platform |-> Platform("google"),
   country |-> country, popularity_metrics |-> TrendMetrics(ans).metrics,
   source_url |-> <<keyword, country>>]

\* an attempt that appends a record however it ended
AppendsAlways(ans) == TRUE

\* lines 95-149: the attempt appends a record when the 12-month frame has data
\* for the keyword and the metrics are computed without an exception
Appends(ans) == ans.kind = "data" /\ ~TrendMetrics(ans).raised

\* a backoff that does not grow
WaitTimeFlat(attempt) == BackoffUnit

\* line 158
WaitTime(attempt) == (attempt + 1) * BackoffUnit

(* the call of an adapter with no arguments *)

AdapterInit ==
  /\ OrchIdle
  /\ DirectionIdle
  /\ a_which \in AdapterSet
  /\ a_pc = "load"
  /\ a_kwread = "none"
  /\ a_keywords = <<>>
  /\ a_ki = 1
  /\ a_workflows = <<>>
  /\ a_exc = "none"
  /\ a_last = NoItem
  /\ a_search = NoSearch
  /\ a_pace = NoPace
  /\ g_ci = 1
  /\ g_attempt = 0
  /\ g_resp = <<>>
  /\ g_waits = <<>>
  /\ d_max_pages_per_keyword \in 0..1
  /\ a_which # "discourse" => d_max_pages_per_keyword = 0
  /\ d_page = 0
  /\ d_topics = <<>>
  /\ d_seen_urls = {}
  /\ d_topic_id = 0
  /\ d_requests = NoRequests
  /\ y_pages_processed = 0
  /\ y_all_video_ids = <<>>
  /\ y_i = 0
  /\ y_items = <<>>

\* where the adapter goes once it has its keywords
FirstStep(a, keywords) ==
  CASE a = "youtube" -> "keycheck"
    [] a = "discourse" -> IF keywords = <<>> THEN "returned" ELSE "search"
    [] a = "google" -> IF keywords = <<>> THEN "returned" ELSE "attempt"

\* keywords = load_keywords_from_file()
ReadKeywords ==
  /\ a_pc = "load"
  /\ \E file \in KeywordFiles, fault \in {"none"} \cup Raises(a_which, "keywords") :
       LET r == LoadKeywords(a_which, file, fault)
       IN  /\ a_kwread' = (IF fault = "none" THEN "ok" ELSE fault)
           /\ a_keywords' = r.keywords
           /\ a_exc' = r.exc
           /\ a_pc' = (IF r.exc # "none" THEN "raised" ELSE FirstStep(a_which, r.keywords))
  /\ UNCHANGED <<a_which, a_ki, a_workflows, a_last, a_search, a_pace, trendVars, forumVars,
                 videoVars>>
  /\ UNCHANGED <<orchVars, tvars>>

\* ingest_google.py 74-165: one attempt of the retry loop
TrendAttempt ==
  /\ a_which = "google"
  /\ a_pc = "attempt"
  /\ \E ans \in TrendAnswers :
       LET keyword == a_keywords[a_ki]
           country == TrendCountries[g_ci]
           built == TrendMetrics(ans)
           rateLimited == ans.kind = "raise" /\ IsSubclass(ans.exc, "ResponseError")
                            /\ ans.status = 429
       IN  /\ g_resp' = Append(g_resp, ans)
           /\ a_workflows' =
                (IF Appends(ans)
                 THEN Append(a_workflows, TrendRecord(keyword, country, ans))
                 ELSE a_workflows)
           /\ a_last' =
                [tag |-> (CASE ans.kind = "data" /\ ~built.raised -> "emitted"
                            [] ans.kind = "data" /\ built.raised -> "raised"
                            [] ans.kind = "empty" -> "nodata"
                            [] OTHER -> "raised"),
                 exc |-> (IF ans.kind = "data" /\ built.raised THEN "ZeroDivisionError"
                          ELSE ans.exc),
                 item |-> ans]
           /\ g_waits' = (IF rateLimited THEN Append(g_waits, WaitTime(g_attempt)) ELSE g_waits)
           /\ a_pace' = (IF rateLimited THEN Sleep(NetworkCall(a_pace), "backoff")
                         ELSE NetworkCall(a_pace))
           /\ g_attempt' = (IF rateLimited THEN g_attempt + 1 ELSE g_attempt)
           /\ a_pc' = (IF rateLimited /\ g_attempt + 1 < Retries THEN "attempt" ELSE "pace")
  /\ UNCHANGED <<a_which, a_kwread, a_keywords, a_ki, a_exc, a_search, g_ci,
                 forumVars, videoVars>>
  /\ UNCHANGED <<orchVars, tvars>>

\* ingest_google.py 167 and the two for statements: the next pair, or the return
TrendPace ==
  /\ a_which = "google"
  /\ a_pc = "pace"
  /\ g_ci' = (IF g_ci < Len(TrendCountries) THEN g_ci + 1 ELSE 1)
  /\ a_ki' = (IF g_ci < Len(TrendCountries) THEN a_ki ELSE a_ki + 1)
  /\ a_pc' = (IF a_ki' <= Len(a_keywords) THEN "attempt" ELSE "returned")
  /\ g_attempt' = 0
  /\ g_resp' = <<>>
  /\ g_waits' = <<>>
  /\ a_pace' = Sleep(a_pace, "keyword")
  /\ UNCHANGED <<a_which, a_kwread, a_keywords, a_workflows, a_exc, a_last, a_search,
                 forumVars, videoVars>>
  /\ UNCHANGED <<orchVars, tvars>>

(* the forum adapter *)

\* pages of results the forum has for a search
MaxPages == 2
\* topics on one page of results
MaxTopics == 2

\* ingest_discourse.py 38: ... else 10
DefaultMaxPages == 10

\* the entries of a search page: a topic with its id, or an entry without 'id'
TopicRefs == {[has_id |-> TRUE, id |-> t] : t \in TopicIds} \cup {[has_id |-> FALSE, id |-> 0]}

\* what the search request of a page (lines 43-48) can end with;
\* raise_for_status raises HTTPError for a 4xx or 5xx answer
\* the later pages of a search hold nothing, or the first topic seen once more
SearchAnswers(page, seen_urls) ==
  { [exc |-> e, status |-> 0, topics |-> <<>>] : e \in Raises("discourse", "search") \ {"HTTPError"} }
    \cup { [exc |-> "HTTPError", status |-> st, topics |-> <<>>] : st \in {429, 500} }
    \cup { [exc |-> "none", status |-> 200, topics |-> ts] :
             ts \in (IF page < MaxPages THEN SeqsUpTo(TopicRefs, MaxTopics)
                     ELSE {<<>>} \cup {<<[has_id |-> TRUE, id |-> t]>> :
                                       t \in {u \in seen_urls : \A v \in seen_urls : u <= v}}) }

ForumItem(views, replies, likes, contributors) ==
  [views |-> views, replies |-> replies, likes |-> likes, contributors |-> contributors]

\* the counters a topic detail may hold
ForumItems == { ForumItem(0, 0, 0, 1), ForumItem(0, 2, 0, 0), ForumItem(4, 2, 1, 2) }

\* what the detail request of a topic (lines 68-76) can end with
DetailAnswers ==
  { [exc |-> e, item |-> ForumItem(0, 0, 0, 0)] : e \in Raises("discourse", "topic") }
    \cup { [exc |-> "none", item |-> it] : it \in ForumItems }

\* a filter that skips nothing
ForumNoEngagementNever(it) == FALSE

\* line 79
ForumNoEngagement(it) == it.views = 0 /\ it.replies = 0 /\ it.likes = 0

\* lines 84-103
ForumMetrics(it) ==
  LET total_engagement == it.replies + it.likes + it.contributors
      reply_to_view == GuardedRatio(it.replies, it.views, 6)
      like_to_view == GuardedRatio(it.likes, it.views, 6)
      contributor_to_view == GuardedRatio(it.contributors, it.views, 6)
      engagement == GuardedRatio(total_engagement, it.views, 6)
      per_contributor == GuardedRatio(it.replies, it.contributors, 2)
  IN  [raised |-> reply_to_view.raised \/ like_to_view.raised \/ contributor_to_view.raised
                    \/ engagement.raised \/ per_contributor.raised,
       metrics |-> [views |-> it.views, replies |-> it.replies, likes |-> it.likes,
                    contributors |-> it.contributors,
                    reply_to_view_ratio |-> reply_to_view.value,
                    like_to_view_ratio |-> like_to_view.value,
                    contributor_to_view_ratio |-> contributor_to_view.value,
                    total_engagement |-> total_engagement,
                    engagement_score |-> engagement.value,
                    replies_per_contributor |-> per_contributor.value]]

\* lines 105-111 (the title of a topic is taken as a function of its id)
ForumRecord(id, it) ==
  [workflow_name |-> <<"topic", id>>, platform |-> Platform("discourse"),
   country |-> "Global", popularity_metrics |-> ForumMetrics(it).metrics,
   source_url |-> <<"/t/", id>>]

\* a limit that is the default whatever the caller asked for
MaxPagesOfDefault(max_pages_per_keyword) == DefaultMaxPages

\* line 38
MaxPagesOf(max_pages_per_keyword) ==
  IF max_pages_per_keyword # 0 THEN max_pages_per_keyword ELSE DefaultMaxPages

\* an except clause around the detail request that lets everything through
ItemHandlersNone == {}

\* lines 116-122
ItemHandlers == Handlers("discourse", "topic")

\* a for statement that stays on its keyword
ForumSameKeyword ==
  /\ a_ki' = a_ki
  /\ d_page' = 0
  /\ d_topics' = <<>>
  /\ a_pc' = "search"

\* the for statement of line 34 moves to the next keyword
ForumNextKeyword ==
  /\ a_ki' = a_ki + 1
  /\ d_page' = 0
  /\ d_topics' = <<>>
  /\ a_pc' = (IF a_ki + 1 <= Len(a_keywords) THEN "search" ELSE "returned")

\* lines 42-54 and 131-132: the test of the while statement and one search request
ForumSearch ==
  /\ a_which = "discourse"
  /\ a_pc = "search"
  /\ IF d_page >= MaxPagesOf(d_max_pages_per_keyword)
     THEN ForumNextKeyword /\ UNCHANGED <<a_exc, a_search, a_pace>>
     ELSE \E ans \in SearchAnswers(d_page, d_seen_urls) :
          /\ a_pace' = NetworkCall(a_pace)
          /\ a_search' = [ki |-> a_ki, page |-> d_page, exc |-> ans.exc, status |-> ans.status,
                          more |-> ans.topics # <<>>]
          /\ IF ans.exc # "none"
             THEN IF \E cls \in Handlers("discourse", "search") : IsSubclass(ans.exc, cls)
                  THEN ForumNextKeyword /\ UNCHANGED a_exc
                  ELSE /\ a_exc' = ans.exc
                       /\ a_pc' = "raised"
                       /\ UNCHANGED <<a_ki, d_page, d_topics>>
             ELSE IF ans.topics = <<>>
             THEN ForumNextKeyword /\ UNCHANGED a_exc
             ELSE /\ d_topics' = ans.topics
                  /\ a_pc' = "topic"
                  /\ UNCHANGED <<a_ki, d_page, a_exc>>
  /\ UNCHANGED <<a_which, a_kwread, a_keywords, a_workflows, a_last,
                 d_max_pages_per_keyword, d_seen_urls, d_topic_id, d_requests, trendVars,
                 videoVars>>
  /\ UNCHANGED <<orchVars, tvars>>

\* lines 125-127: the topic handled was the last of its page, or was not
ForumAfterTopic ==
  /\ d_topics' = Tail(d_topics)
  /\ d_page' = (IF Tail(d_topics) = <<>> THEN d_page + 1 ELSE d_page)
  /\ a_pc' = (IF Tail(d_topics) = <<>> THEN "search" ELSE "topic")
  /\ UNCHANGED <<a_ki, a_exc>>

\* seen_urls where the id is added only once its detail has been fetched
SeenAfterSuccess(seen_urls, topic_id, e) ==
  IF e = "none" THEN seen_urls \cup {topic_id} ELSE seen_urls

\* lines 61-69: seen_urls.add(topic_url) comes before the detail request, so the
\* id is in seen_urls however the request ends
SeenAfter(seen_urls, topic_id, e) == seen_urls \cup {topic_id}

\* line 127: the sleep that follows the last topic of a page
AfterTopic(pace) == IF Tail(d_topics) = <<>> THEN Sleep(pace, "page") ELSE pace

\* lines 56-123: one topic of the page
ForumTopic ==
  /\ a_which = "discourse"
  /\ a_pc = "topic"
  /\ LET topic == Head(d_topics)
     IN  IF ~topic.has_id
         THEN \* KeyError at line 58; line 121 formats topic_id
              IF d_topic_id = 0
              THEN /\ a_exc' = "UnboundLocalError"
                   /\ a_pc' = "raised"
                   /\ a_last' = [tag |-> "raised", exc |-> "UnboundLocalError", item |-> topic]
                   /\ UNCHANGED <<a_ki, d_page, d_topics, d_seen_urls, d_topic_id, d_requests,
                                  a_workflows, a_pace>>
              ELSE /\ ForumAfterTopic
                   /\ a_pace' = AfterTopic(a_pace)
                   /\ a_last' = [tag |-> "raised", exc |-> "KeyError", item |-> topic]
                   /\ UNCHANGED <<d_seen_urls, d_topic_id, d_requests, a_workflows>>
         ELSE /\ d_topic_id' = topic.id
              /\ IF topic.id \in d_seen_urls
                 THEN /\ ForumAfterTopic
                      /\ a_pace' = AfterTopic(a_pace)
                      /\ a_last' = [tag |-> "seen", exc |-> "none", item |-> topic]
                      /\ UNCHANGED <<d_seen_urls, d_requests, a_workflows>>
                 ELSE \E ans \in DetailAnswers :
                      /\ d_seen_urls' = SeenAfter(d_seen_urls, topic.id, ans.exc)
                      /\ d_requests' = [d_requests EXCEPT ![topic.id] =
                                          Append(@, IF ans.exc = "none" THEN "ok" ELSE "failed")]
                      /\    LET built == ForumMetrics(ans.item)
                               failure == IF ans.exc # "none" THEN ans.exc
                                          ELSE IF ~ForumNoEngagement(ans.item) /\ built.raised
                                          THEN "ZeroDivisionError" ELSE "none"
                           IN  IF failure # "none"
                               THEN /\ a_last' = [tag |-> "raised", exc |-> failure,
                                                  item |-> ans.item]
                                    /\ UNCHANGED a_workflows
                                    /\ IF \E cls \in ItemHandlers : IsSubclass(failure, cls)
                                       THEN /\ ForumAfterTopic
                                            /\ a_pace' = AfterTopic(NetworkCall(a_pace))
                                       ELSE IF \E cls \in Handlers("discourse", "search") :
                                                  IsSubclass(failure, cls)
                                       THEN /\ ForumNextKeyword
                                            /\ a_pace' = NetworkCall(a_pace)
                                            /\ UNCHANGED a_exc
                                       ELSE /\ a_exc' = failure
                                            /\ a_pc' = "raised"
                                            /\ a_pace' = NetworkCall(a_pace)
                                            /\ UNCHANGED <<a_ki, d_page, d_topics>>
                               ELSE IF ForumNoEngagement(ans.item)
                               THEN /\ ForumAfterTopic
                                    /\ a_pace' = AfterTopic(NetworkCall(a_pace))
                                    /\ a_last' = [tag |-> "skipped", exc |-> "none",
                                                  item |-> ans.item]
                                    /\ UNCHANGED a_workflows
                               ELSE /\ ForumAfterTopic
                                    /\ a_pace' = AfterTopic(Sleep(NetworkCall(a_pace), "item"))
                                    /\ a_last' = [tag |-> "emitted", exc |-> "none",
                                                  item |-> ans.item]
                                    /\ a_workflows' =
                                         Append(a_workflows, ForumRecord(topic.id, ans.item))
  /\ UNCHANGED <<a_which, a_kwread, a_keywords, a_search, d_max_pages_per_keyword,
                 trendVars, videoVars>>
  /\ UNCHANGED <<orchVars, tvars>>

(* the video adapter *)

\* ingest_youtube.py 41: max_pages = 5
VideoMaxPages == 5
\* ingest_youtube.py 74: batch_size = 50
BatchSize == 50

VideoIds == {"v1", "v2"}

\* what one search request (lines 44-59) can end with: the ids of the page and
\* whether a nextPageToken came with them; a search that goes on after MaxPages
\* pages has a token on every later page, and no new id
VideoSearchAnswers(pages_processed) ==
  { [exc |-> e, status |-> 0, ids |-> <<>>, next_page_token |-> FALSE] :
      e \in Raises("youtube", "search") \ {"HttpError"} }
    \cup { [exc |-> "HttpError", status |-> st, ids |-> <<>>, next_page_token |-> FALSE] :
             st \in {429, 500} }
    \cup { [exc |-> "none", status |-> 200, ids |-> ids, next_page_token |-> tok] :
             ids \in (IF pages_processed < MaxPages THEN SeqsUpTo(VideoIds, 1) ELSE {<<>>}),
             tok \in (IF pages_processed < MaxPages THEN BOOLEAN ELSE {TRUE}) }

VideoItem(views, likes, comments) == [views |-> views, likes |-> likes, comments |-> comments]

\* the statistics a video may have
VideoItems == { VideoItem(0, 0, 0), VideoItem(0, 3, 0), VideoItem(4, 2, 1) }

\* list(dict.fromkeys(ids))
RECURSIVE Unique(_)
Unique(ids) ==
  IF ids = <<>> THEN <<>>
  ELSE LET front == Unique(SubSeq(ids, 1, Len(ids) - 1))
           last == ids[Len(ids)]
       IN  IF \E i \in 1..Len(front) : front[i] = last THEN front ELSE Append(front, last)

\* unique_video_ids[i:i + batch_size]
Batch(ids, i) ==
  SubSeq(ids, i + 1, IF i + BatchSize < Len(ids) THEN i + BatchSize ELSE Len(ids))

\* what one statistics request (lines 78-82) can end with
VideoStatsAnswers(batch_ids) ==
  { [exc |-> e, items |-> <<>>] : e \in Raises("youtube", "videos") }
    \cup { [exc |-> "none", items |-> [k \in 1..Len(batch_ids) |-> [id |-> batch_ids[k], stats |-> f[k]]]] :
             f \in [1..Len(batch_ids) -> VideoItems] }

\* line 91
VideoSkipped(it) == it.views = 0

\* lines 94-105
VideoMetrics(it) ==
  LET like_to_view == GuardedRatio(it.likes, it.views, 6)
      comment_to_view == GuardedRatio(it.comments, it.views, 6)
      engagement == GuardedRatio(it.likes + it.comments, it.views, 6)
  IN  [raised |-> like_to_view.raised \/ comment_to_view.raised \/ engagement.raised,
       metrics |-> [views |-> it.views, likes |-> it.likes, comments |-> it.comments,
                    like_to_view_ratio |-> like_to_view.value,
                    comment_to_view_ratio |-> comment_to_view.value,
                    total_engagement |-> it.likes + it.comments,
                    engagement_score |-> engagement.value]]

\* lines 107-113 (the title of a video is taken as a function of its id)
VideoRecord(id, it) ==
  [workflow_name |-> <<"video", id>>, platform |-> Platform("youtube"),
   country |-> "Global", popularity_metrics |-> VideoMetrics(it).metrics,
   source_url |-> <<"watch?v=", id>>]

\* an exception inside the try statement of lines 33-116, which encloses the
\* loop over the keywords and the loop over the batches
VideoFailure(e) ==
  IF \E cls \in Handlers("youtube", "search") : IsSubclass(e, cls)
  THEN /\ a_pc' = "returned" /\ UNCHANGED a_exc
  ELSE /\ a_pc' = "raised" /\ a_exc' = e

\* lines 26-34: the key check and build()
VideoBuild ==
  /\ a_which = "youtube"
  /\ a_pc = "keycheck"
  /\ \E configured \in BOOLEAN, fault \in {"none"} \cup Raises("youtube", "build") :
       IF ~configured THEN a_pc' = "returned" /\ UNCHANGED a_exc
       ELSE IF fault # "none" THEN VideoFailure(fault)
       ELSE /\ a_pc' = (IF a_keywords = <<>> THEN "stats" ELSE "search")
            /\ UNCHANGED a_exc
  /\ UNCHANGED <<a_which, a_kwread, a_keywords, a_ki, a_workflows, a_last, a_search,
                 a_pace, trendVars, forumVars, videoVars>>
  /\ UNCHANGED <<orchVars, tvars>>

\* the for statement of line 37 moves to the next keyword
VideoNextKeyword ==
  /\ a_ki' = a_ki + 1
  /\ y_pages_processed' = 0
  /\ a_pc' = (IF a_ki + 1 <= Len(a_keywords) THEN "search" ELSE "stats")

\* lines 43-62: one search request
VideoSearch ==
  /\ a_which = "youtube"
  /\ a_pc = "search"
  /\ \E ans \in VideoSearchAnswers(y_pages_processed) :
       /\ a_search' = [ki |-> a_ki, page |-> y_pages_processed, exc |-> ans.exc,
                       status |-> ans.status, more |-> ans.next_page_token]
       /\ a_pace' = NetworkCall(a_pace)
       /\ IF ans.exc # "none"
          THEN VideoFailure(ans.exc) /\ UNCHANGED <<a_ki, y_pages_processed, y_all_video_ids>>
          ELSE /\ y_all_video_ids' = y_all_video_ids \o ans.ids
               /\ UNCHANGED a_exc
               /\ IF ans.next_page_token /\ y_pages_processed + 1 < VideoMaxPages
                  THEN /\ y_pages_processed' = y_pages_processed + 1
                       /\ UNCHANGED <<a_ki, a_pc>>
                  ELSE VideoNextKeyword
  /\ UNCHANGED <<a_which, a_kwread, a_keywords, a_workflows, a_last, y_i, y_items,
                 trendVars, forumVars>>
  /\ UNCHANGED <<orchVars, tvars>>

\* lines 66-82: the statistics request of one batch
VideoStats ==
  /\ a_which = "youtube"
  /\ a_pc = "stats"
  /\ IF y_i >= Len(Unique(y_all_video_ids))
     THEN a_pc' = "returned" /\ UNCHANGED <<a_exc, y_items, a_pace>>
     ELSE \E ans \in VideoStatsAnswers(Batch(Unique(y_all_video_ids), y_i)) :
            /\ a_pace' = NetworkCall(a_pace)
            /\ IF ans.exc # "none" THEN VideoFailure(ans.exc) /\ UNCHANGED y_items
               ELSE /\ y_items' = ans.items
                    /\ a_pc' = "item"
                    /\ UNCHANGED a_exc
  /\ UNCHANGED <<a_which, a_kwread, a_keywords, a_ki, a_workflows, a_last, a_search,
                 y_pages_processed, y_all_video_ids, y_i, trendVars, forumVars>>
  /\ UNCHANGED <<orchVars, tvars>>

\* lines 85-113: one item of the batch
VideoHandleItem ==
  /\ a_which = "youtube"
  /\ a_pc = "item"
  /\ LET item == Head(y_items)
         built == VideoMetrics(item.stats)
         after == /\ y_items' = Tail(y_items)
                  /\ y_i' = (IF Tail(y_items) = <<>> THEN y_i + BatchSize ELSE y_i)
                  /\ a_pc' = (IF Tail(y_items) = <<>> THEN "stats" ELSE "item")
                  /\ UNCHANGED a_exc
     IN  IF VideoSkipped(item.stats)
         THEN /\ after
              /\ a_last' = [tag |-> "skipped", exc |-> "none", item |-> item.stats]
              /\ UNCHANGED a_workflows
         ELSE IF built.raised
         THEN /\ VideoFailure("ZeroDivisionError")
              /\ a_last' = [tag |-> "raised", exc |-> "ZeroDivisionError", item |-> item.stats]
              /\ UNCHANGED <<a_workflows, y_items, y_i>>
         ELSE /\ after
              /\ a_last' = [tag |-> "emitted", exc |-> "none", item |-> item.stats]
              /\ a_workflows' = Append(a_workflows, VideoRecord(item.id, item.stats))
  /\ UNCHANGED <<a_which, a_kwread, a_keywords, a_ki, a_search, a_pace, y_pages_processed,
                 y_all_video_ids, trendVars, forumVars>>
  /\ UNCHANGED <<orchVars, tvars>>

AdapterNext ==
  \/ ReadKeywords
  \/ ForumSearch
  \/ ForumTopic
  \/ VideoBuild
  \/ VideoSearch
  \/ VideoStats
  \/ VideoHandleItem
  \/ TrendAttempt
  \/ TrendPace

SpecAdapter == AdapterInit /\ [][AdapterNext]_vars

(* --------- a run of the orchestrator or a call of an adapter, to its end -------- *)

LiveInit == Init \/ AdapterInit

\* the run that was started, or the adapter that was called, takes its next step
LiveNext ==
  \/ a_which = "none" /\ Next
  \/ a_which # "none" /\ AdapterNext

\* every external call returns or fails: a step that can be taken is taken
SpecLive == LiveInit /\ [][LiveNext]_vars /\ WF_vars(LiveNext)

(* ------------------- one call of calculate_trend_direction --------------- *)

\* rows of the interest frame
MaxPoints == 4

\* the interest values of a row
Interest == {0, 1, 2}

\* the frames the function is called with: the rows of the keyword's column,
\* or a frame without that column
Frames ==
  { [has_column |-> c, values |-> v] : c \in BOOLEAN, v \in SeqsUpTo(Interest, MaxPoints) }

\* days: the callers pass 30, 60 and 90 (ingest_google.py 103-105); the small
\* values make the window shorter than the frame
Days == {1, 3, 30}

RECURSIVE SumOver(_, _)
\* sum(f[i] for i in range(n)), with the indices 1..n
SumOver(f, n) == IF n = 0 THEN 0 ELSE SumOver(f, n - 1) + f[n]

\* a window that is the whole column
WholeColumn(values, days) == values

\* line 27: df[keyword].tail(min(days, len(df)))
RecentData(values, days) ==
  LET k == IF days < Len(values) THEN days ELSE Len(values)
  IN  SubSeq(values, Len(values) - k + 1, Len(values))

\* lines 32-37: numerator and denominator of slope, x = 0 .. n - 1
SlopeParts(y) ==
  LET n == Len(y)
      sum_x == SumOver([i \in 1..n |-> i - 1], n)
      sum_y == SumOver(y, n)
      sum_xy == SumOver([i \in 1..n |-> (i - 1) * y[i]], n)
      sum_xx == SumOver([i \in 1..n |-> (i - 1) * (i - 1)], n)
  IN  [num |-> n * sum_xy - sum_x * sum_y, den |-> n * sum_xx - sum_x * sum_x]

\* lines 45-50; slope is num / den with den > 0, so that slope > 0.1 is
\* 10 * num > den
TrendDirection(num, den) ==
  IF 10 * num > den THEN "trending_up"
  ELSE IF 10 * num < -den THEN "trending_down"
  ELSE "stable"

\* lines 23-56 (slope and change_percentage in units of 10^-4 and 10^-2)
calculate_trend_direction(df, days) ==
  IF df.values = <<>> \/ ~df.has_column
  THEN [raised |-> FALSE, trend_direction |-> "unknown", change_percentage |-> 0, slope |-> 0]
  ELSE LET recent_data == RecentData(df.values, days)
       IN  IF Len(recent_data) < 2
           THEN [raised |-> FALSE, trend_direction |-> "insufficient_data",
                 change_percentage |-> 0, slope |-> 0]
           ELSE LET parts == SlopeParts(recent_data)
                    slope == Divide(parts.num, parts.den, 4)
                    start_value == IF recent_data[1] > 0 THEN recent_data[1] ELSE 1
                    end_value == recent_data[Len(recent_data)]
                IN  IF slope.raised
                    THEN [raised |-> TRUE, trend_direction |-> "none",
                          change_percentage |-> 0, slope |-> 0]
                    ELSE [raised |-> FALSE,
                          trend_direction |-> TrendDirection(parts.num, parts.den),
                          change_percentage |-> Round((end_value - start_value) * 100,
                                                      start_value, 2),
                          slope |-> slope.value]

\* a call of calculate_trend_direction with some frame and some window
DirectionInit ==
  /\ OrchIdle
  /\ AdapterIdle
  /\ t_pc = "call"
  /\ t_df \in Frames
  /\ t_days \in Days
  /\ t_result = NoDirection

\* the call returns, or raises ZeroDivisionError
Calculate ==
  /\ t_pc = "call"
  /\ t_result' = calculate_trend_direction(t_df, t_days)
  /\ t_pc' = (IF t_result'.raised THEN "raised" ELSE "returned")
  /\ UNCHANGED <<t_df, t_days>>
  /\ UNCHANGED <<orchVars, avars>>

SpecDirection == DirectionInit /\ [][Calculate]_vars

(* ------------------------------ claims -------------------------------- *)

\* a bulk write of this run has been committed
WriteCommitted == pc = "done" /\ executes = 1

FirstIndex(ws, k) ==
  CHOOSE i \in 1..Len(ws) : Key(ws[i]) = k /\ \A j \in 1..(i - 1) : Key(ws[j]) # k

LastIndex(ws, k) ==
  CHOOSE i \in 1..Len(ws) : Key(ws[i]) = k /\ \A j \in (i + 1)..Len(ws) : Key(ws[j]) # k

RowOf(rows, k) == CHOOSE r \in rows : Key(r) = k

\* what a reader sees of the rows, per key: metrics and source url
View(rows) ==
  {[key |-> Key(r), popularity_metrics |-> r.popularity_metrics, source_url |-> r.source_url] :
     r \in rows}

\* C1: in every state, and so after every completed Writing step of every run,
\* the store holds at most one row per (workflow_name, platform, country).
Uniqueness == \A r1, r2 \in store : Key(r1) = Key(r2) => r1 = r2

\* a write has been committed over a key that was already stored
UniquenessWitness ==
  WriteCommitted /\ \E r \in store0 : Key(r) \in KeysOf(batch)

\* C2: once the deduplicate-then-upsert of an aggregate has been committed,
\* running it again on the same aggregate leaves the row count and the metrics
\* and source url of every key as they are.
Idempotence ==
  WriteCommitted =>
    LET again == CommitTxn(store, UpsertAll(store, BatchOf(script, all_workflows), clock + 1))
    IN  /\ Cardinality(again) = Cardinality(store)
        /\ View(again) = View(store)

\* the committed aggregate held a repeated key and met a store that had rows
IdempotenceWitness ==
  WriteCommitted /\ HasDuplicateKeys(all_workflows) /\ store0 # {}

UpsertExistingKey ==
  WriteCommitted =>
    /\ \A i \in 1..Len(batch) : \A r0 \in store0 :
         Key(r0) = Key(batch[i]) =>
           /\ Cardinality({r \in store : Key(r) = Key(r0)}) = 1
           /\ RowOf(store, Key(r0)).id = r0.id
           /\ RowOf(store, Key(r0)).popularity_metrics = batch[i].popularity_metrics
           /\ RowOf(store, Key(r0)).source_url = batch[i].source_url
    /\ \A r0 \in store0 : Key(r0) \notin KeysOf(batch) => r0 \in store

\* a committed batch changed the url of a stored row and left another row out
UpsertExistingKeyWitness ==
  /\ WriteCommitted
  /\ \E i \in 1..Len(batch) : \E r0 \in store0 :
       /\ Key(r0) = Key(batch[i])
       /\ r0.source_url # batch[i].source_url
       /\ r0.popularity_metrics # batch[i].popularity_metrics
  /\ \E r1 \in store0 : Key(r1) \notin KeysOf(batch)

\* C5 as stated: after a committed write, the row of every key of the batch
\* has last_updated equal to the time of this write.
LastUpdatedRefreshed ==
  WriteCommitted =>
    \A r \in store : Key(r) \in KeysOf(batch) => r.last_updated = clock

\* C6: with an empty aggregate no statement is issued and the store stays as
\* it was, and a run whose three adapters all returned nothing ends in Done
\* with exit status 0.
EmptyBatchNoOp ==
  all_workflows = <<>> =>
    /\ executes = 0
    /\ store = store0
    /\ pending = store0
    /\ (pc \in Terminal /\ returned = AdapterSet) =>
          (pc = "done" /\ exit_code = 0 /\ workflows_processed = 0)

\* a run that was to write ended with nothing collected, over a store with rows
EmptyBatchNoOpWitness ==
  /\ pc = "done"
  /\ returned = AdapterSet
  /\ all_workflows = <<>>
  /\ ~dry_run
  /\ store0 # {}

\* C7: when the bulk write raises, the store is the store the run started
\* with; and in every state the store holds none or all of the run's batch.
AtomicBatchWrite ==
  /\ (pc = "failed" /\ failedAt = "write") => store = store0
  /\ store = store0 \/ store = UpsertAll(store0, batch, clock)

\* the write of a batch of several records that would have changed the store
\* has failed
AtomicBatchWriteWitness ==
  /\ pc = "failed"
  /\ failedAt = "write"
  /\ Len(batch) >= 2
  /\ store0 # {}
  /\ UpsertAll(store0, batch, clock) # store0

\* C8: a run that ends in Done exits with status 0 and nothing was raised in
\* it; a run in which something was raised ends in Failed with status 1, a
\* failure of the write included.
ExitSignal ==
  /\ pc = "done" => (exit_code = 0 /\ exc = "none" /\ failedAt = "none")
  /\ pc = "failed" => (exit_code = 1 /\ exc # "none")
  /\ exc # "none" => pc = "failed"
  /\ failedAt = "write" => (pc = "failed" /\ exit_code = 1)

\* the write failed after all three adapters had returned
ExitSignalWitness ==
  /\ pc = "failed"
  /\ failedAt = "write"
  /\ returned = AdapterSet
  /\ all_workflows # <<>>
  /\ exit_code = 1

\* C9 as stated: no run is moved to Failed by the failure of a source adapter.
SourceFailureIsolated == pc = "failed" => failedAt \notin AdapterSet

\* C10 as stated: whenever an adapter is about to run, whatever external call
\* of it fails, its body ends by returning a list.
AdapterNeverRaises ==
  \A a \in AdapterSet :
    (pc = a /\ CallAccepted(script, a)) => \A o \in BodyOutcomes(a, 0) : o.tag = "return"

DryRunCount ==
  (pc = "done" /\ dry_run) =>
    workflows_processed = Cardinality(KeysOf(all_workflows))

\* C20: no step of any run removes a key from the store.
NeverDeleted ==
  [][\A r \in store : \E r2 \in store' : Key(r2) = Key(r)]_vars

\* a committed write has left alone a row whose key was not in the batch
NeverDeletedWitness ==
  /\ WriteCommitted
  /\ \E r \in store0 : Key(r) \notin KeysOf(batch) /\ r \in store

\* C13: a pair answered 429, 429 and then data yields the record of the third
\* answer after exactly two backoff waits, of 5 and then of 10
RateLimitedTwice ==
  /\ a_which = "google"
  /\ a_pc = "pace"
  /\ Len(g_resp) = 3
  /\ \A i \in 1..2 : g_resp[i].kind = "raise" /\ g_resp[i].exc = "ResponseError"
                       /\ g_resp[i].status = 429
  /\ g_resp[3].kind = "data"

RateLimitRecovery ==
  RateLimitedTwice =>
    /\ g_waits = <<5, 10>>
    /\ a_last.tag = "emitted"
    /\ a_workflows # <<>>
    /\ a_workflows[Len(a_workflows)]
         = TrendRecord(a_keywords[a_ki], TrendCountries[g_ci], g_resp[3])

RateLimitRecoveryWitness ==
  RateLimitedTwice /\ g_resp[3].annual > 0 /\ Len(a_workflows) > 1

\* C14 as stated: in every adapter a search request answered with a rate-limit
\* (429) response is followed by a new request for the same page of the same
\* keyword
RateLimitRetried ==
  (a_search.exc # "none" /\ a_search.status = 429) =>
    /\ a_pc = "search"
    /\ a_ki = a_search.ki
    /\ (a_which = "discourse" => d_page = a_search.page)
    /\ (a_which = "youtube" => y_pages_processed = a_search.page)

\* the search request made last failed with an error its adapter handles
SearchFailed ==
  /\ a_search.exc # "none"
  /\ \E cls \in Handlers(a_which, "search") : IsSubclass(a_search.exc, cls)

\* C15 as stated: a search request that failed ends the search of its keyword
\* only: the adapter returns only after it has gone through its last keyword
SearchFailureConfined ==
  (SearchFailed /\ a_pc = "returned") => a_ki > Len(a_keywords)

\* the detail request of the topic at the head of the page fails in this step
DetailFailure ==
  /\ a_which = "discourse"
  /\ a_pc = "topic"
  /\ Head(d_topics).has_id
  /\ Head(d_topics).id \notin d_seen_urls
  /\ a_last'.tag = "raised"
  /\ a_last'.exc \in Raises("discourse", "topic")

\* C16: a timeout, network error or parse error of the detail request of a
\* topic skips that topic only: the adapter goes on with the next topic of the
\* page, or with the next page of the same keyword, and raises nothing
ItemFailureLocal ==
  [][DetailFailure =>
       /\ a_exc' = "none"
       /\ a_workflows' = a_workflows
       /\ a_ki' = a_ki
       /\ d_topics' = Tail(d_topics)
       /\ IF Tail(d_topics) # <<>> THEN a_pc' = "topic" /\ d_page' = d_page
          ELSE a_pc' = "search" /\ d_page' = d_page + 1]_vars

ItemFailureLocalWitness ==
  /\ a_which = "discourse"
  /\ a_last.tag = "raised"
  /\ a_last.exc = "Timeout"
  /\ a_pc = "topic"
  /\ Head(d_topics).has_id
  /\ Head(d_topics).id \notin d_seen_urls
  /\ a_ki < Len(a_keywords)

\* the raw counters of an emitted record are all zero
AllCountersZero(w) ==
  LET m == w.popularity_metrics
  IN  \/ w.platform = "Discourse" /\ m.views = 0 /\ m.replies = 0 /\ m.likes = 0
      \/ w.platform = "YouTube" /\ m.views = 0 /\ m.likes = 0 /\ m.comments = 0

\* C17: no record an adapter emits has all of its raw counters equal to zero
NoZeroEngagementEmitted ==
  \A i \in 1..Len(a_workflows) : ~AllCountersZero(a_workflows[i])

NoZeroEngagementEmittedWitness ==
  /\ a_last.tag = "skipped"
  /\ a_last.item.views = 0 /\ a_last.item.likes = 0
  /\ (a_which = "discourse" => a_last.item.replies = 0)
  /\ (a_which = "youtube" => a_last.item.comments = 0)
  /\ a_workflows # <<>>

\* every ratio of an emitted record whose denominator is zero is zero
ZeroDenominatorZeroRatio(w) ==
  LET m == w.popularity_metrics
  IN  /\ (w.platform = "Discourse" /\ m.views = 0) =>
            /\ m.reply_to_view_ratio = 0 /\ m.like_to_view_ratio = 0
            /\ m.contributor_to_view_ratio = 0 /\ m.engagement_score = 0
      /\ (w.platform = "Discourse" /\ m.contributors = 0) => m.replies_per_contributor = 0
      /\ (w.platform = "YouTube" /\ m.views = 0) =>
            /\ m.like_to_view_ratio = 0 /\ m.comment_to_view_ratio = 0
            /\ m.engagement_score = 0
      /\ (w.platform = "Google Trends" /\ m.annual_average_interest = 0) => m.momentum_score = 0

\* C18: no normalizer raises ZeroDivisionError, and a ratio whose denominator
\* is zero is zero in every emitted record
ZeroDivisionSafe ==
  /\ a_last.exc # "ZeroDivisionError"
  /\ a_exc # "ZeroDivisionError"
  /\ \A i \in 1..Len(a_workflows) : ZeroDenominatorZeroRatio(a_workflows[i])

ZeroDivisionSafeWitness ==
  /\ a_which = "discourse"
  /\ a_last.tag = "emitted"
  /\ a_last.item.views = 0 /\ a_last.item.replies > 0 /\ a_last.item.contributors = 0
  /\ a_workflows[Len(a_workflows)].popularity_metrics.reply_to_view_ratio = 0
  /\ a_workflows[Len(a_workflows)].popularity_metrics.replies_per_contributor = 0

\* C19 as stated: whatever makes the read of the keyword file fail, the
\* adapter gets the built-in list and the failure is not raised
KeywordFallback ==
  a_kwread \notin {"none", "ok"} =>
    (a_keywords = DefaultKeywords(a_which) /\ a_exc # a_kwread)

\* C21 as stated: a run whose environment holds no video API key is not failed
\* by the import of the video adapter, and the video adapter returns no record
MissingKeyDegrades ==
  ~KeyConfigured(YOUTUBE_API_KEY) =>
    /\ pc = "failed" => failedAt # "import"
    /\ "youtube" \in returned => source_counts["youtube"] = 0

\* C22 as stated: every adapter takes the limits the bounded run passes to it,
\* so no call of an adapter is rejected for its arguments
LimitsAccepted == pc = "failed" => exc # "TypeError"

\* the position changes along Collecting, Deduplicating and Writing, Done
PhaseStep ==
  pc' # pc =>
    \/ pc' = "failed" /\ pc \notin Terminal \cup {"idle"}
    \/ pc' = "import" /\ pc \in Terminal \cup {"idle"}
    \/ <<pc, pc'>> \in { <<"import", "init">>, <<"init", "discourse">>,
                         <<"discourse", "youtube">>, <<"youtube", "google">>,
                         <<"google", "process">>, <<"process", "commit">>,
                         <<"process", "done">>, <<"commit", "done">> }

\* a statement is issued once, after the three adapters, on the deduplicated list
WriteStep ==
  (executes' # executes /\ pc' # "import") =>
    /\ pc = "process"
    /\ executes' = 1
    /\ returned = AdapterSet
    /\ batch' = Deduplicate(all_workflows)

\* Done follows the commit, or a write skipped for a dry run or an empty list
DoneStep ==
  (pc' = "done" /\ pc # "done") =>
    \/ pc = "commit" /\ store' = pending
    \/ pc = "process" /\ executes = 0 /\ (dry_run \/ all_workflows = <<>>)

\* C23 as stated: in every run the phases occur in the order Collecting,
\* Deduplicating, Writing, Done (or Failed); the one write of a run is issued
\* after the three adapters returned and on the deduplicated aggregate, and Done
\* follows its commit or its skip
PhaseOrder == [][PhaseStep /\ WriteStep /\ DoneStep]_vars

\* C24 as stated: the batch handed to the statement holds no key twice
BatchKeysUnique == executes > 0 => ~HasDuplicateKeys(batch)

AdapterRank(platform) ==
  CHOOSE i \in 1..Len(Adapters) : Platform(Adapters[i]) = platform

\* the list an adapter returned goes to the end of the aggregate, whole
ExtendStep ==
  (pc \in AdapterSet /\ pc' = NextPhase(pc)) =>
    /\ Len(all_workflows') = Len(all_workflows) + source_counts'[pc]
    /\ SubSeq(all_workflows', 1, Len(all_workflows)) = all_workflows
    /\ \A i \in (Len(all_workflows) + 1)..Len(all_workflows') :
         all_workflows'[i].platform = Platform(pc)

\* C25: the aggregate is the forum adapter's list, then the video adapter's,
\* then the trend adapter's; records of different adapters are not interleaved
FixedMergeOrder ==
  /\ [](\A i, j \in 1..Len(all_workflows) :
          i < j => AdapterRank(all_workflows[i].platform) <= AdapterRank(all_workflows[j].platform))
  /\ [][ExtendStep]_vars

FixedMergeOrderWitness ==
  /\ pc = "process"
  /\ Len(all_workflows) = 2
  /\ all_workflows[1].platform = "Discourse"
  /\ all_workflows[2].platform # "Discourse"

\* the rows of the store that hold the values of a record of the committed batch
RowsWritten ==
  IF ~WriteCommitted THEN 0
  ELSE Cardinality({ r \in store :
         \E i \in 1..Len(batch) :
           /\ Key(batch[i]) = Key(r)
           /\ r.popularity_metrics = batch[i].popularity_metrics
           /\ r.source_url = batch[i].source_url })

SourceTotal ==
  source_counts["discourse"] + source_counts["youtube"] + source_counts["google"]

PageLimit ==
  IF a_which = "youtube" THEN 5
  ELSE IF d_max_pages_per_keyword # 0 THEN d_max_pages_per_keyword ELSE 10

\* a search request is made: it is for the keyword at hand, and it is either
\* the first page of that keyword or the page after the last one requested,
\* which was answered and reported further results
PageStep ==
  a_search' # a_search =>
    /\ a_search'.ki = a_ki
    /\ IF a_search'.ki = a_search.ki
       THEN /\ a_search'.page = a_search.page + 1
            /\ a_search.exc = "none"
            /\ a_search.more
       ELSE a_search'.page = 0

\* C26: for every keyword the pages are requested in increasing order from the
\* first, no page is requested after one that reported no further results, and
\* the pages requested for a keyword stay below the page limit (forum: the
\* caller's max_pages_per_keyword, or 10; video: 5)
PaginationStops ==
  /\ [](a_search # NoSearch => a_search.page < PageLimit)
  /\ [][PageStep]_vars

\* the fifth page of a video search came with a token, and the adapter went
\* on to the next keyword
PaginationStopsWitness ==
  /\ a_which = "youtube"
  /\ a_search.exc = "none"
  /\ a_search.page = 4
  /\ a_search.more
  /\ a_search.ki = 1
  /\ a_ki = 2
  /\ a_pc = "search"

\* C27 as stated: in one run of an adapter no two emitted records come from the
\* same source-native identifier (topic id, video id, trend keyword and
\* country), which source_url carries
NativeIdsUnique ==
  \A i, j \in 1..Len(a_workflows) :
    i # j => a_workflows[i].source_url # a_workflows[j].source_url

\* C28 as stated: a fetched item is dropped for lack of engagement only when
\* all of its raw counters are zero
DroppedOnlyAllZero ==
  a_last.tag = "skipped" =>
    /\ a_last.item.views = 0
    /\ a_last.item.likes = 0
    /\ (a_which = "discourse" => a_last.item.replies = 0)
    /\ (a_which = "youtube" => a_last.item.comments = 0)

\* C29 as stated: whatever the keyword file holds, the keywords read from it
\* are a non-empty sequence, the non-blank lines stripped and in file order
KeywordsNonEmpty ==
  a_kwread = "ok" => a_keywords # <<>>

\* the answer to the attempt made last on the pair at hand was a rate limit
RateLimitedLast ==
  /\ a_which = "google"
  /\ g_resp # <<>>
  /\ g_resp[Len(g_resp)].kind = "raise"
  /\ g_resp[Len(g_resp)].exc = "ResponseError"
  /\ g_resp[Len(g_resp)].status = 429

\* C31 as stated: every backoff wait of the trend adapter is followed by another
\* attempt on the same pair, and no wait is made after the last allowed attempt:
\* a pair that is rate-limited on all 3 attempts has 2 backoff waits
RetryShape ==
  /\ RateLimitedLast => a_pc = "attempt"
  /\ (RateLimitedLast /\ Len(g_resp) = 3) => Len(g_waits) = 2

\* the trailing window of the call: the last min(days, length) rows
TrailingWindow ==
  LET len == Len(t_df.values)
      k == IF t_days < len THEN t_days ELSE len
  IN  [i \in 1..k |-> t_df.values[len - k + i]]

\* the least-squares slope of y over x = 0 .. n - 1 is Covariance / Variance:
\* the sums of (x - mean x)(y - mean y) and of (x - mean x)^2, both times n^2
Covariance(y) ==
  LET n == Len(y)
      sx == SumOver([i \in 1..n |-> i - 1], n)
      sy == SumOver(y, n)
  IN  SumOver([i \in 1..n |-> (n * (i - 1) - sx) * (n * y[i] - sy)], n)

Variance(y) ==
  LET n == Len(y)
      sx == SumOver([i \in 1..n |-> i - 1], n)
  IN  SumOver([i \in 1..n |-> (n * (i - 1) - sx) * (n * (i - 1) - sx)], n)

\* the direction is the one of the slope of the trailing window
DirectionOfSlope ==
  LET y == TrailingWindow
  IN  /\ t_result.trend_direction \in {"trending_up", "trending_down", "stable"}
      /\ t_result.trend_direction = "trending_up" <=> 10 * Covariance(y) > Variance(y)
      /\ t_result.trend_direction = "trending_down" <=> 10 * Covariance(y) < -Variance(y)

\* C32 as stated: for every frame, the call returns without a division by zero
\* and its trend_direction is trending_up, trending_down or stable, according to
\* the least-squares slope of the trailing window and the dead zone of 0.1
DirectionOfEverySeries ==
  t_pc \in {"returned", "raised"} => t_pc = "returned" /\ DirectionOfSlope

\* C32: the same for a trailing window of at least two rows; a frame that is
\* empty or lacks the keyword's column gives "unknown", a window of one row
\* gives "insufficient_data"
DirectionOfSeries ==
  t_pc \in {"returned", "raised"} =>
    /\ t_pc = "returned"
    /\ IF t_df.values = <<>> \/ ~t_df.has_column
       THEN t_result.trend_direction = "unknown"
       ELSE IF Len(TrailingWindow) < 2
       THEN t_result.trend_direction = "insufficient_data"
       ELSE DirectionOfSlope

\* a window of four rows whose slope is 0.1, the edge of the dead zone
DirectionOfSeriesWitness ==
  /\ t_pc = "returned"
  /\ Len(TrailingWindow) = 4
  /\ 10 * Covariance(TrailingWindow) = Variance(TrailingWindow)
  /\ t_result.trend_direction = "stable"
  /\ t_result.slope = 1000

\* C33 as stated: in one adapter run a sleep is made between any two successive
\* network calls, whatever became of the item or page of the earlier call
PacedCalls == a_pace.gap # "none"

\* an adapter was called and has not returned or raised, or a run of the
\* orchestrator was started and has not reached Done or Failed
Running ==
  \/ a_which # "none" /\ a_pc \notin {"returned", "raised"}
  \/ pc \notin Terminal \cup {"idle"}

\* C34: an adapter that was called returns or raises, having made at most 3
\* attempts on each pair, and a run of the orchestrator that was started
\* reaches Done or Failed
Termination ==
  /\ [](Len(g_resp) <= 3 /\ g_attempt <= 3)
  /\ Running ~> ~Running

\* the forum adapter has returned after the ten pages of its last keyword
TerminationWitness ==
  /\ a_which = "discourse"
  /\ a_pc = "returned"
  /\ a_search.page = 9
  /\ a_search.more
  /\ a_search.ki = Len(a_keywords)

\* the records emitted for the topic with this id
RecordsOfTopic(t) ==
  {i \in 1..Len(a_workflows) : a_workflows[i].source_url = <<"/t/", t>>}

\* C35: in one run of the forum adapter the detail of a topic id is requested
\* at most once, the id being in seen_urls from that request on, and a topic
\* whose detail request failed has no record, wherever it appears again
FetchedAtMostOnce ==
  \A t \in TopicIds :
    /\ Len(d_requests[t]) <= 1
    /\ d_requests[t] # <<>> => t \in d_seen_urls
    /\ d_requests[t] = <<"failed">> => RecordsOfTopic(t) = {}
    /\ Cardinality(RecordsOfTopic(t)) <= 1

\* a topic whose detail request failed is met again under the next keyword
FetchedAtMostOnceWitness ==
  /\ a_which = "discourse"
  /\ a_ki = 2
  /\ a_last.tag = "seen"
  /\ d_requests[a_last.item.id] = <<"failed">>
  /\ d_requests[3 - a_last.item.id] = <<"ok">>
  /\ Len(a_workflows) = 1

\* the pairs of keyword and country whose iteration is over
PairsDone == (a_ki - 1) * Len(TrendCountries) + (g_ci - 1)

\* a record is appended: one record, by an attempt that was answered with data,
\* and that attempt is the last of its pair
AppendStep ==
  (a_which = "google" /\ a_workflows' # a_workflows) =>
    /\ Len(a_workflows') = Len(a_workflows) + 1
    /\ SubSeq(a_workflows', 1, Len(a_workflows)) = a_workflows
    /\ g_resp'[Len(g_resp')].kind = "data"
    /\ g_resp'[Len(g_resp')].exc = "none"
    /\ a_pc' = "pace"

\* C36: in the trend adapter each iteration of a (keyword, country) pair appends
\* at most one record, whatever the answers to its attempts, and a record is
\* appended only by an attempt that ended without an exception and with data
OneRecordPerPair ==
  /\ [](a_which = "google" =>
          Len(a_workflows) <= PairsDone + (IF a_pc = "pace" THEN 1 ELSE 0))
  /\ [][AppendStep]_vars

\* the third pair was rate-limited once and then answered with data; each of
\* the three pairs has its record
OneRecordPerPairWitness ==
  /\ a_which = "google"
  /\ a_pc = "pace"
  /\ PairsDone = 2
  /\ Len(g_resp) = 2
  /\ g_resp[1].status = 429
  /\ g_resp[2].kind = "data"
  /\ Len(a_workflows) = 3

====
